---- MODULE Spec2Model ----
(***************************************************************************)
(* Model of the Reuters IR backend: the geocode cache with bounded retry   *)
(* (backend/indexer.py, geocode_cached) and the hybrid search pipeline     *)
(* (backend/ir_core.py, smart_hybrid_search, behind backend/app.py search),*)
(* and the title completion (backend/ir_core.py, autocomplete_titles).     *)
(*                                                                         *)
(* Text is modelled as a sequence of one-character strings, so that        *)
(* lower(), strip(), split() and substring tests are computed, not assumed.*)
(***************************************************************************)
EXTENDS Integers, Sequences, FiniteSets, TLC

VARIABLES
    GEO_CACHE,   \* indexer.py:37  the process-wide dict: key -> result
    pc,          \* per thread: position inside geocode_cached
    name,        \* per thread: the argument `name`
    key,         \* per thread: the local `key`
    result,      \* per thread: the local `result`
    attempts,    \* per thread: iterations of the retry loop completed (= remote calls issued)
    last,        \* per thread: the outcome of the latest remote attempt of this call
    hit,         \* per thread: TRUE when this call took the cache-hit return
    ret,         \* per thread: the value returned by the call
    prev,        \* name and result of the latest completed call
    spc,         \* the search request's position: app.search / smart_hybrid_search
    req,         \* the request's arguments: q, from, to, geo, size
    start,       \* start
    end,         \* end
    date_range,  \* date_range
    qpoint,      \* query_point
    geoFailed,   \* geocode_cached was called by this request and returned None
    lexHits,     \* lex_hits
    semHits,     \* sem_hits
    candidates,  \* candidates, in insertion order
    ranked,      \* ranked, after the sort
    response,    \* the list the endpoint returns
    calls,       \* external calls issued by this request
    apc,         \* position inside autocomplete_titles
    prefix,      \* autocomplete_titles: the argument `prefix`
    size,        \* autocomplete_titles: the argument `size`
    res,         \* autocomplete_titles: res["hits"]["hits"], as document ids
    pos,         \* autocomplete_titles: the hit the loop is at
    seen,        \* autocomplete_titles: seen
    titles,      \* autocomplete_titles: titles
    completions, \* the list autocomplete_titles returned
    acCalls      \* index queries issued by this call of autocomplete_titles

geoVars == <<GEO_CACHE, pc, name, key, result, attempts, last, hit, ret, prev>>

searchVars == <<spc, req, start, end, date_range, qpoint, geoFailed, lexHits, semHits, candidates, ranked,
                response, calls>>

acVars == <<apc, prefix, size, res, pos, seen, titles, completions, acCalls>>

vars == <<geoVars, searchVars, acVars>>

-----------------------------------------------------------------------------
(* Text helpers: str.lower, str.strip                                      *)

\* str.lower on one character
LowerChar(c) ==
    CASE c = "A" -> "a"
      [] c = "B" -> "b"
      [] c = "U" -> "u"
      [] c = "S" -> "s"
      [] OTHER -> c

\* str.lower
Lower(s) == [i \in 1..Len(s) |-> LowerChar(s[i])]

IsSpace(c) == c = " "

RECURSIVE LStrip(_)
LStrip(s) == IF s # <<>> /\ IsSpace(Head(s)) THEN LStrip(Tail(s)) ELSE s

RECURSIVE RStrip(_)
RStrip(s) ==
    IF s # <<>> /\ IsSpace(s[Len(s)]) THEN RStrip(SubSeq(s, 1, Len(s) - 1)) ELSE s

\* str.strip
Strip(s) == RStrip(LStrip(s))

-----------------------------------------------------------------------------
(* geocode_cached                                                          *)

\* A key computed without lower-casing (a bug the cache property must detect)
KeyNoLower(n) == Strip(n)

\* indexer.py:53   key = name.lower().strip()
Key(n) == Strip(Lower(n))

\* indexer.py:50   retries=3
Retries == 3

\* The value None, and a resolved location (indexer.py:63-69); `place` is the
\* query the geocoder answered (Nominatim's display_name / raw).
None == [ok |-> FALSE, place |-> <<>>, lat |-> 0, lon |-> 0]

Loc(n, c) == [ok |-> TRUE, place |-> n, lat |-> c.lat, lon |-> c.lon]

\* Coordinates the remote geocoder may answer with (it may answer differently
\* at different times).
Coords == {[lat |-> 10, lon |-> 20], [lat |-> 40, lon |-> 60]}

\* Outcomes of one geolocator.geocode call: a location, None (not found),
\* GeocoderTimedOut/GeocoderUnavailable, or any other Exception.
Outcomes == {"found", "notfound", "transient", "permanent"}

\* A retry loop that keeps going after a permanent error
AfterAttemptRetryAll(o, n) ==
    IF o = "found" THEN "store"
    ELSE IF n < Retries THEN "attempt" ELSE "store"

\* indexer.py:58-76  where the loop goes after attempt number n ended with o:
\* break on a location or on a permanent error, otherwise next iteration
\* while range(retries) is not exhausted.
AfterAttempt(o, n) ==
    IF o \in {"found", "permanent"} THEN "store"
    ELSE IF n < Retries THEN "attempt" ELSE "store"

\* A store that rebinds the whole dictionary
StoreCacheClobber(c, k, r) == [x \in {k} |-> r]

\* indexer.py:78   GEO_CACHE[key] = result
StoreCache(c, k, r) == [x \in DOMAIN c \cup {k} |-> IF x = k THEN r ELSE c[x]]

Threads == {1, 2}

\* Place names given to geocode_cached
E == <<>>
GeoNames == {E, <<" ">>, <<"A">>, <<" ", "a">>, <<"b">>}

\* Place names the concurrent callers resolve
RaceNames == {<<"A">>, <<" ", "a">>, <<"b">>}

NoPrev == [valid |-> FALSE, name |-> E, ret |-> None]

GeoInit ==
    /\ GEO_CACHE = <<>>
    /\ pc = [t \in Threads |-> "idle"]
    /\ name = [t \in Threads |-> E]
    /\ key = [t \in Threads |-> E]
    /\ result = [t \in Threads |-> None]
    /\ attempts = [t \in Threads |-> 0]
    /\ last = [t \in Threads |-> "none"]
    /\ hit = [t \in Threads |-> FALSE]
    /\ ret = [t \in Threads |-> None]
    /\ prev = NoPrev

\* indexer.py:50  a caller invokes geocode_cached(n)
Call(t, n) ==
    /\ pc[t] = "idle"
    /\ pc' = [pc EXCEPT ![t] = "entered"]
    /\ name' = [name EXCEPT ![t] = n]
    /\ UNCHANGED <<GEO_CACHE, key, result, attempts, last, hit, ret, prev>>

\* indexer.py:51-57  the empty-name return, the key, the membership test
Lookup(t) ==
    /\ pc[t] = "entered"
    /\ IF name[t] = E
         THEN /\ pc' = [pc EXCEPT ![t] = "done"]
              /\ UNCHANGED <<key, hit>>
         ELSE /\ key' = [key EXCEPT ![t] = Key(name[t])]
              /\ IF Key(name[t]) \in DOMAIN GEO_CACHE
                   THEN /\ pc' = [pc EXCEPT ![t] = "read"]
                        /\ hit' = [hit EXCEPT ![t] = TRUE]
                   ELSE /\ pc' = [pc EXCEPT ![t] = "attempt"]
                        /\ UNCHANGED hit
    /\ UNCHANGED <<GEO_CACHE, name, result, attempts, last, ret, prev>>

\* indexer.py:55  return GEO_CACHE[key]
ReadHit(t) ==
    /\ pc[t] = "read"
    /\ ret' = [ret EXCEPT ![t] = GEO_CACHE[key[t]]]
    /\ pc' = [pc EXCEPT ![t] = "done"]
    /\ UNCHANGED <<GEO_CACHE, name, key, result, attempts, last, hit, prev>>

\* indexer.py:58-76  one iteration of the retry loop: one remote call
Attempt(t, o, c) ==
    /\ pc[t] = "attempt"
    /\ attempts' = [attempts EXCEPT ![t] = @ + 1]
    /\ last' = [last EXCEPT ![t] = o]
    /\ result' = [result EXCEPT ![t] = IF o = "found" THEN Loc(name[t], c) ELSE @]
    /\ pc' = [pc EXCEPT ![t] = AfterAttempt(o, attempts[t] + 1)]
    /\ UNCHANGED <<GEO_CACHE, name, key, hit, ret, prev>>

\* indexer.py:78-79  GEO_CACHE[key] = result; return result
Store(t) ==
    /\ pc[t] = "store"
    /\ GEO_CACHE' = StoreCache(GEO_CACHE, key[t], result[t])
    /\ ret' = [ret EXCEPT ![t] = result[t]]
    /\ pc' = [pc EXCEPT ![t] = "done"]
    /\ UNCHANGED <<name, key, result, attempts, last, hit, prev>>

\* the call has returned to its caller: its locals are gone
Return(t) ==
    /\ pc[t] = "done"
    /\ pc' = [pc EXCEPT ![t] = "idle"]
    /\ prev' = [valid |-> TRUE, name |-> name[t], ret |-> ret[t]]
    /\ name' = [name EXCEPT ![t] = E]
    /\ key' = [key EXCEPT ![t] = E]
    /\ result' = [result EXCEPT ![t] = None]
    /\ attempts' = [attempts EXCEPT ![t] = 0]
    /\ last' = [last EXCEPT ![t] = "none"]
    /\ hit' = [hit EXCEPT ![t] = FALSE]
    /\ ret' = [ret EXCEPT ![t] = None]
    /\ UNCHANGED GEO_CACHE

\* a step of geocode_cached called on its own (no search request involved)
GeoStep(t, names) ==
    \/ \E n \in names : Call(t, n) /\ UNCHANGED <<searchVars, acVars>>
    \/ Lookup(t) /\ UNCHANGED <<searchVars, acVars>>
    \/ ReadHit(t) /\ UNCHANGED <<searchVars, acVars>>
    \/ \E o \in Outcomes, c \in Coords : Attempt(t, o, c) /\ UNCHANGED <<searchVars, acVars>>
    \/ Store(t) /\ UNCHANGED <<searchVars, acVars>>
    \/ Return(t) /\ UNCHANGED <<searchVars, acVars>>

-----------------------------------------------------------------------------
(* More text helpers: str.split, substring test, float()                   *)

RECURSIVE SplitOn(_, _, _)
\* the pieces of s between the characters satisfying sep; cur is the piece
\* being read
SplitOn(s, sep, cur) ==
    IF s = <<>> THEN <<cur>>
    ELSE IF Head(s) \in sep THEN <<cur>> \o SplitOn(Tail(s), sep, <<>>)
    ELSE SplitOn(Tail(s), sep, Append(cur, Head(s)))

\* str.split(",")
SplitComma(s) == SplitOn(s, {","}, <<>>)

\* set(str.split()): the whitespace-separated words, empty pieces dropped
WordSet(s) ==
    LET ps == SplitOn(s, {" "}, <<>>)
    IN  {ps[i] : i \in 1..Len(ps)} \ {<<>>}

\* sub in s
Contains(s, sub) ==
    \E i \in 1..(Len(s) - Len(sub) + 1) : SubSeq(s, i, i + Len(sub) - 1) = sub

Digits == <<"0", "1", "2", "3", "4", "5", "6", "7", "8", "9">>

IsDigit(c) == \E i \in 1..10 : Digits[i] = c

DigitVal(c) == (CHOOSE i \in 1..10 : Digits[i] = c) - 1

\* float(part) succeeds: surrounding whitespace is allowed, the rest must be
\* a numeral (unsigned integers here)
IsFloat(part) ==
    LET b == Strip(part)
    IN  b # <<>> /\ \A i \in 1..Len(b) : IsDigit(b[i])

RECURSIVE Decimal(_)
Decimal(b) ==
    IF b = <<>> THEN 0
    ELSE 10 * Decimal(SubSeq(b, 1, Len(b) - 1)) + DigitVal(b[Len(b)])

\* float(part)
FloatOf(part) == Decimal(Strip(part))

-----------------------------------------------------------------------------
(* Dates.  A date string is a sequence of tokens: a four-digit year, "-",  *)
(* a two-digit month, "-", a two-digit day, optionally "T" and a time.     *)

TwoDigits ==
    <<"01", "02", "03", "04", "05", "06", "07", "08", "09", "10", "11", "12",
      "13", "14", "15", "16", "17", "18", "19", "20", "21", "22", "23", "24",
      "25", "26", "27", "28", "29", "30", "31">>

Years == <<"1986", "1987", "1988", "1989">>

FirstYear == 1986

IsYearTok(t) == \E i \in 1..Len(Years) : Years[i] = t
YearVal(t) == FirstYear - 1 + (CHOOSE i \in 1..Len(Years) : Years[i] = t)
IsTwoDigit(t) == \E i \in 1..Len(TwoDigits) : TwoDigits[i] = t
TwoDigitVal(t) == CHOOSE i \in 1..Len(TwoDigits) : TwoDigits[i] = t

IsLeap(y) == (y % 4 = 0) /\ ((y % 100 # 0) \/ (y % 400 = 0))

DaysInMonth(y, m) ==
    IF m = 2 THEN (IF IsLeap(y) THEN 29 ELSE 28)
    ELSE IF m \in {4, 6, 9, 11} THEN 30 ELSE 31

RECURSIVE DaysBeforeMonth(_, _)
DaysBeforeMonth(y, m) ==
    IF m = 1 THEN 0 ELSE DaysBeforeMonth(y, m - 1) + DaysInMonth(y, m - 1)

\* date.toordinal
Ordinal(dt) ==
    LET y == dt.y - 1
    IN  y * 365 + (y \div 4) - (y \div 100) + (y \div 400)
          + DaysBeforeMonth(dt.y, dt.m) + dt.d

\* the value None for a date, and a datetime (sec: seconds after midnight)
NoDate == [some |-> FALSE, y |-> 0, m |-> 0, d |-> 0, sec |-> 0]
DateTime(y, m, d, sec) == [some |-> TRUE, y |-> y, m |-> m, d |-> d, sec |-> sec]

\* times of day accepted after "T"
TimeToks == <<"00:00:00", "10:30:00">>
IsTimeTok(t) == \E i \in 1..Len(TimeToks) : TimeToks[i] = t
TimeVal(t) == IF t = "10:30:00" THEN 37800 ELSE 0

\* YYYY-MM-DD is well formed and names a day of the calendar
IsIsoDate(s) ==
    /\ Len(s) = 5
    /\ IsYearTok(s[1]) /\ s[2] = "-" /\ IsTwoDigit(s[3]) /\ s[4] = "-" /\ IsTwoDigit(s[5])
    /\ TwoDigitVal(s[3]) <= 12
    /\ TwoDigitVal(s[5]) <= DaysInMonth(YearVal(s[1]), TwoDigitVal(s[3]))

\* datetime.fromisoformat accepts s: a date, or a date, "T" and a time
IsIso(s) ==
    \/ IsIsoDate(s)
    \/ Len(s) = 7 /\ IsIsoDate(SubSeq(s, 1, 5)) /\ s[6] = "T" /\ IsTimeTok(s[7])

\* datetime.fromisoformat(s), for s accepted
FromIso(s) ==
    DateTime(YearVal(s[1]), TwoDigitVal(s[3]), TwoDigitVal(s[5]),
             IF Len(s) = 7 THEN TimeVal(s[7]) ELSE 0)

\* date.isoformat
IsoFormat(dt) == <<Years[dt.y - FirstYear + 1], "-", TwoDigits[dt.m], "-", TwoDigits[dt.d]>>

\* datetime.date(): the calendar day
DateOf(dt) == DateTime(dt.y, dt.m, dt.d, 0)

\* date + timedelta(days=1)
NextDay(dt) ==
    IF dt.d < DaysInMonth(dt.y, dt.m) THEN DateTime(dt.y, dt.m, dt.d + 1, 0)
    ELSE IF dt.m < 12 THEN DateTime(dt.y, dt.m + 1, 1, 0)
    ELSE DateTime(dt.y + 1, 1, 1, 0)

\* obj.split('T')[0]
BeforeT(s) == SplitOn(s, {"T"}, <<>>)[1]

\* date_str.replace("Z", "")
DropZ(s) == SelectSeq(s, LAMBDA t : t # "Z")

\* An optional request argument: absent (None) or a string
Absent == [given |-> FALSE, s |-> <<>>]
Given(s) == [given |-> TRUE, s |-> s]

\* ir_core.py:111-118  to_datetime raises ValueError on a string that
\* fromisoformat rejects
ToDatetimeRaises(arg) == arg.given /\ ~IsIsoDate(BeforeT(arg.s))

\* ir_core.py:111-118  to_datetime, when it does not raise
ToDatetime(arg) ==
    IF ~arg.given THEN NoDate ELSE FromIso(BeforeT(arg.s))

\* ir_core.py:120  start = to_datetime(start_date_input)
StartOf(f) == ToDatetime(f)

\* ir_core.py:121-125  end, defaulted to December 31 of the start's year
EndOf(st, t) ==
    LET e == ToDatetime(t)
    IN  IF ~e.some /\ st.some THEN DateTime(st.y, 12, 31, 0) ELSE e

\* ir_core.py:132  (end.date() + timedelta(days=1) - timedelta(seconds=1)).isoformat()
\* date - timedelta uses the timedelta's days only, so the second is not
\* subtracted and the bound is the day after `end`.
LteOf(e) == IsoFormat(NextDay(DateOf(e)))

\* ir_core.py:128-133  date_range: each bound present or not
DateRange(st, en) ==
    [gte |-> IF st.some THEN Given(IsoFormat(DateOf(st))) ELSE Absent,
     lte |-> IF en.some THEN Given(LteOf(en)) ELSE Absent]

NoRange == [gte |-> Absent, lte |-> Absent]

\* ir_core.py:133,189  date_range is not empty
FilterActive(range) == range.gte.given \/ range.lte.given

-----------------------------------------------------------------------------
(* The index (OpenSearch) and its documents                                *)

\* Number of documents in the index snapshot
NDocs == 3

\* "YYYY-MM-DDTHH:MM:SS" as written by the indexer (indexer.py:338)
Stamp(y, m, d, t) == Given(<<y, "-", m, "-", d, "T", t>>)

\* A JSON field of a stored document that holds text: a string, null, or
\* no such key
Str(s) == [kind |-> "str", s |-> s]
JsonNull == [kind |-> "null", s |-> <<>>]
NoKey == [kind |-> "missing", s |-> <<>>]

\* The geopoint field: a {lat, lon} object, null, or no such key
GeoDict(la, lo) == [kind |-> "dict", lat |-> la, lon |-> lo]
GeoNull == [kind |-> "null", lat |-> 0, lon |-> 0]
GeoNoKey == [kind |-> "missing", lat |-> 0, lon |-> 0]

\* The documents: title, date (null or a date string), geopoint ({0,0} when
\* unresolved, indexer.py:361-362), and the scores the two engines give the
\* document when it is a hit.  Documents 1 to 4 are as the indexer writes
\* them; 5 to 7 are documents the index accepts from any other writer: a
\* null title, a year-month date, no geopoint key, no title key, a null
\* geopoint.
Corpus ==
    <<[title |-> Str(<<"a", " ", "c">>), date |-> Stamp("1987", "03", "01", "00:00:00"),
       geopoint |-> GeoDict(10, 20), lex |-> 40, sem |-> 2],
      [title |-> Str(<<"b">>), date |-> Stamp("1988", "01", "01", "00:00:00"),
       geopoint |-> GeoDict(0, 0), lex |-> 3, sem |-> 3],
      [title |-> Str(<<>>), date |-> Absent,
       geopoint |-> GeoDict(40, 60), lex |-> 3, sem |-> 4],
      [title |-> Str(<<"A", " ", "b">>), date |-> Stamp("1987", "01", "15", "10:30:00"),
       geopoint |-> GeoDict(10, 60), lex |-> 2, sem |-> 5],
      [title |-> JsonNull, date |-> Stamp("1987", "03", "01", "00:00:00"),
       geopoint |-> GeoDict(10, 20), lex |-> 5, sem |-> 1],
      [title |-> Str(<<"a", " ", "c">>), date |-> Given(<<"1987", "-", "03">>),
       geopoint |-> GeoNoKey, lex |-> 6, sem |-> 6],
      [title |-> NoKey, date |-> Stamp("1987", "06", "30", "10:30:00"),
       geopoint |-> GeoNull, lex |-> 7, sem |-> 7]>>

\* the documents a search request can retrieve
DocIds == 1..NDocs

\* every document of the index
AllDocIds == DOMAIN Corpus

\* ir_core.py:187-191, 230-233  what the code reads from a document's date:
\* whether date_str is truthy, whether fromisoformat accepts it, the datetime
DocDateOf(doc) ==
    LET ds == doc.date
        truthy == ds.given /\ ds.s # <<>>
        parses == truthy /\ IsIso(DropZ(ds.s))
    IN  [truthy |-> truthy, parses |-> parses,
         dt |-> IF parses THEN FromIso(DropZ(ds.s)) ELSE NoDate,
         ord |-> IF parses THEN Ordinal(FromIso(DropZ(ds.s))) ELSE 0]

DocDate == [i \in DOMAIN Corpus |-> DocDateOf(Corpus[i])]

\* "YYYY-MM", which the index's date field accepts and fromisoformat rejects
IsYearMonth(s) ==
    Len(s) = 3 /\ IsYearTok(s[1]) /\ s[2] = "-" /\ IsTwoDigit(s[3]) /\ TwoDigitVal(s[3]) <= 12

\* the day the index holds for the document's date field, 0 when null
IndexedDay == [i \in DOMAIN Corpus |->
                 IF ~Corpus[i].date.given THEN 0
                 ELSE IF IsIso(Corpus[i].date.s) THEN Ordinal(FromIso(Corpus[i].date.s))
                 ELSE IF IsYearMonth(Corpus[i].date.s)
                 THEN Ordinal(DateTime(YearVal(Corpus[i].date.s[1]),
                                       TwoDigitVal(Corpus[i].date.s[3]), 1, 0))
                 ELSE 0]

\* a hit: hit["_id"], hit["_score"]; hit["_source"] is Corpus[id]
Hit(i, sc) == [id |-> i, score |-> sc]

RECURSIVE InsertDesc(_, _)
\* x placed after every element whose score is >= its own (stable)
InsertDesc(sorted, x) ==
    IF sorted = <<>> THEN <<x>>
    ELSE IF Head(sorted).score >= x.score THEN <<Head(sorted)>> \o InsertDesc(Tail(sorted), x)
    ELSE <<x>> \o sorted

\* a sort that leaves the list as it is
SortKeepOrder(xs) == xs

RECURSIVE SortDesc(_)
\* ir_core.py:251  list.sort(key=score, reverse=True): descending, stable
SortDesc(xs) ==
    IF xs = <<>> THEN <<>>
    ELSE InsertDesc(SortDesc(SubSeq(xs, 1, Len(xs) - 1)), xs[Len(xs)])

\* the first n elements: xs[:n]
Take(xs, n) == SubSeq(xs, 1, IF n < Len(xs) THEN n ELSE Len(xs))

RECURSIVE HitsOf(_, _, _)
\* the hits for the documents of S, by id, scored by the engine `eng`
HitsOf(S, eng, i) ==
    IF i > Len(Corpus) THEN <<>>
    ELSE (IF i \in S THEN <<Hit(i, IF eng = "lex" THEN Corpus[i].lex ELSE Corpus[i].sem)>>
          ELSE <<>>) \o HitsOf(S, eng, i + 1)

\* the hits an engine returns for the matching documents S: best score first
BestFirst ==
    [eng \in {"lex", "sem"} |-> [S \in SUBSET AllDocIds |-> SortDesc(HitsOf(S, eng, 1))]]

\* the index's range filter on the date field: inclusive, a bound given as a
\* day covers that whole day; a document without a date does not match
PassesRange(i, range) ==
    /\ IndexedDay[i] # 0
    /\ range.gte.given => Ordinal(FromIso(range.gte.s)) <= IndexedDay[i]
    /\ range.lte.given => IndexedDay[i] <= Ordinal(FromIso(range.lte.s))

\* ir_core.py:154-163  client.search(lex_body): the documents of S (those
\* matching the text) that pass the filter, best first, at most `limit`
LexicalHits(S, range, limit) ==
    LET ok == {i \in S : FilterActive(range) => PassesRange(i, range)}
    IN  Take(BestFirst["lex"][ok], limit)

\* ir_core.py:166-171  client.search(sem_body): the k nearest documents, S,
\* best first; no filter
SemanticHits(S, limit) == Take(BestFirst["sem"][S], limit)

-----------------------------------------------------------------------------
(* Candidate fusion, ir_core.py:173-212                                    *)

\* position of document id in the candidate list, 0 when absent
IndexOfId(cands, id) ==
    IF \E i \in 1..Len(cands) : cands[i].id = id
    THEN CHOOSE i \in 1..Len(cands) : cands[i].id = id
    ELSE 0

\* a lexical step that merges into a candidate that is already there
PutLexMerge(cands, h) ==
    LET k == IndexOfId(cands, h.id)
    IN  IF k # 0
        THEN [cands EXCEPT ![k] = [@ EXCEPT !.lexical_score = h.score,
                                             !.score = @ + h.score]]
        ELSE Append(cands, [id |-> h.id, score |-> h.score,
                            lexical_score |-> h.score, semantic_score |-> 0])

\* ir_core.py:175-183  candidates[doc_id] = {...} for a lexical hit
PutLex(cands, h) ==
    LET c == [id |-> h.id, score |-> h.score, lexical_score |-> h.score, semantic_score |-> 0]
        k == IndexOfId(cands, h.id)
    IN  IF k = 0 THEN Append(cands, c) ELSE [cands EXCEPT ![k] = c]

RECURSIVE FuseLex(_, _)
FuseLex(cands, hits) ==
    IF hits = <<>> THEN cands ELSE FuseLex(PutLex(cands, Head(hits)), Tail(hits))

\* a post-filter that lets a hit without a date through
SemKeepsUndated(i, st, en, range) ==
    IF DocDate[i].truthy
    THEN FilterActive(range)
            => /\ DocDate[i].parses
               /\ ~(st.some /\ DocDate[i].ord < Ordinal(st))
               /\ ~(en.some /\ DocDate[i].ord > Ordinal(en))
    ELSE TRUE

\* ir_core.py:187-199  the date post-filter keeps the semantic hit for
\* document i
SemKeeps(i, st, en, range) ==
    IF FilterActive(range) /\ DocDate[i].truthy
    THEN /\ DocDate[i].parses
         /\ ~(st.some /\ DocDate[i].ord < Ordinal(st))
         /\ ~(en.some /\ DocDate[i].ord > Ordinal(en))
    ELSE ~(FilterActive(range) /\ ~DocDate[i].truthy)

\* a merge that replaces the lexical candidate by the semantic hit
PutSemOverwrite(cands, h) ==
    LET k == IndexOfId(cands, h.id)
        c == [id |-> h.id, score |-> h.score, lexical_score |-> 0, semantic_score |-> h.score]
    IN  IF k # 0 THEN [cands EXCEPT ![k] = c] ELSE Append(cands, c)

\* ir_core.py:201-212  merge one kept semantic hit
PutSem(cands, h) ==
    LET k == IndexOfId(cands, h.id)
    IN  IF k # 0
        THEN [cands EXCEPT ![k] = [@ EXCEPT !.semantic_score = h.score,
                                             !.score = @ + h.score]]
        ELSE Append(cands, [id |-> h.id, score |-> h.score,
                            lexical_score |-> 0, semantic_score |-> h.score])

RECURSIVE FuseSem(_, _, _, _, _)
FuseSem(cands, hits, st, en, range) ==
    IF hits = <<>> THEN cands
    ELSE FuseSem(IF SemKeeps(Head(hits).id, st, en, range)
                 THEN PutSem(cands, Head(hits)) ELSE cands,
                 Tail(hits), st, en, range)

\* ir_core.py:173-212
Fuse(lex, sem, st, en, range) == FuseSem(FuseLex(<<>>, lex), sem, st, en, range)

-----------------------------------------------------------------------------
(* Re-ranking, ir_core.py:214-256.  A final score is kept exactly, as a    *)
(* whole number of units of 1/ScoreUnit.                                   *)

\* 2 (title factor in halves) * 100 (recency in percent) * 1000 (geo in thousandths)
ScoreUnit == 2 * 100 * 1000

Max(a, b) == IF a >= b THEN a ELSE b
Abs(a) == IF a >= 0 THEN a ELSE -a

\* ir_core.py:215  now = datetime(1987, 12, 31)
Now == DateTime(1987, 12, 31, 0)

\* ir_core.py:216  query_words = set(query_text.lower().split())
QueryWords(q) == WordSet(Lower(q))

\* ir_core.py:224  source.get("title", ""): the stored string, "" when the
\* key is missing
TitleText(doc) == IF doc.title.kind = "str" THEN doc.title.s ELSE <<>>

\* ir_core.py:224  a null title has no lower(): AttributeError, outside any try
TitleRaises(doc) == doc.title.kind = "null"

\* ir_core.py:224  title_words, per document
TitleWords == [i \in DOMAIN Corpus |-> WordSet(Lower(TitleText(Corpus[i])))]

\* ir_core.py:224-227  title factor, in halves: 1 + matches * 2.5
TitleHalves(qw, i) ==
    LET matches == Cardinality(qw \cap TitleWords[i])
    IN  IF matches > 0 THEN 2 + 5 * matches ELSE 2

\* ir_core.py:230-237  recency factor, in percent: max(0.5, 1 - months_old * 0.02);
\* (now - doc_date).days is one less when the document carries a time of day
RecencyPct(dd) ==
    IF dd.parses
    THEN LET days == Ordinal(Now) - dd.ord - (IF dd.dt.sec > 0 THEN 1 ELSE 0)
             months_old == Max(0, days \div 30)
         IN  Max(50, 100 - 2 * months_old)
    ELSE 100

Recency == [i \in DOMAIN Corpus |-> RecencyPct(DocDate[i])]

\* geopy.distance.geodesic(p, q).km, coarsely: 111 km per degree
DistKm(p, q) == 111 * (Abs(p.lat - q.lat) + Abs(p.lon - q.lon))

\* 10 ** (-dist / 10000) in thousandths, taken at whole thousands of km
Pow10Neg == <<1000, 794, 631, 501, 398, 316, 251, 200, 158, 126>>

\* the value None for a coordinate, and a coordinate
NoPoint == [some |-> FALSE, lat |-> 0, lon |-> 0]
Point(la, lo) == [some |-> TRUE, lat |-> la, lon |-> lo]

\* ir_core.py:240-242  the geo boost applies to this document: gp is the
\* stored object ({} when the key is missing) and both coordinates are truthy
GeoApplies(qp, doc) ==
    qp.some /\ doc.geopoint.kind = "dict" /\ doc.geopoint.lat # 0 /\ doc.geopoint.lon # 0

\* ir_core.py:241-242  gp.get on a null geopoint: AttributeError, outside the
\* try
GeoRaises(qp, doc) == qp.some /\ doc.geopoint.kind = "null"

\* ir_core.py:244-245  geo factor, in thousandths: max(0.1, 10 ** (-dist / 10000))
GeoMille(qp, doc) ==
    IF GeoApplies(qp, doc)
    THEN LET dist == DistKm(qp, doc.geopoint)
         IN  IF dist >= 10000 THEN 100 ELSE Max(100, Pow10Neg[(dist \div 1000) + 1])
    ELSE 1000

\* ir_core.py:219-249  final_score of one candidate
FinalScore(c, qw, qp) ==
    c.score * TitleHalves(qw, c.id) * Recency[c.id] * GeoMille(qp, Corpus[c.id])

\* ir_core.py:219-249  scoring this candidate raises an exception that no
\* except clause of the loop catches
Raises(c, qp) == TitleRaises(Corpus[c.id]) \/ GeoRaises(qp, Corpus[c.id])

\* ir_core.py:218-249  the loop is left by an exception
RerankAborts(cands, qp) == \E i \in 1..Len(cands) : Raises(cands[i], qp)

\* ir_core.py:218-249  ranked, before the sort
Scored(cands, qw, qp) ==
    [i \in 1..Len(cands) |->
        [id |-> cands[i].id, score |-> FinalScore(cands[i], qw, qp),
         geo |-> GeoApplies(qp, Corpus[cands[i].id])]]

\* a score rounded to 2 decimals and shown in thousandths
Round2(f) ==
    LET u == ScoreUnit \div 100
        n == f \div u
        rem == f % u
    IN  10 * (IF 2 * rem > u \/ (2 * rem = u /\ n % 2 = 1) THEN n + 1 ELSE n)

\* ir_core.py:254  round(final_score, 3), in thousandths (ties to even)
Round3(f) ==
    LET u == ScoreUnit \div 1000
        n == f \div u
        rem == f % u
    IN  IF 2 * rem > u \/ (2 * rem = u /\ n % 2 = 1) THEN n + 1 ELSE n

-----------------------------------------------------------------------------
(* The search request: app.py search -> ir_core.py smart_hybrid_search     *)

\* the request thread, as a caller of geocode_cached
ST == 1

\* Largest `size` argument
MaxSize == 2

QueryTexts == {<<>>, <<" ">>, <<"A", " ", "b">>}
FromArgs == {Absent, Given(<<>>), Given(<<"1987", "-", "03", "-", "01">>)}
ToArgs == {Absent, Given(<<"x">>), Given(<<"1987", "-", "06", "-", "30">>)}
GeoArgs == {<<>>, <<"1", ",", "2">>, <<"U", "s", "a", ",", "1">>, <<"1", ",", "2", ",", "3">>}
Sizes == 1..MaxSize

\* What the geocoder answers during a search
SearchCoords == {[lat |-> 10, lon |-> 20]}

NoReq == [q |-> <<>>, from |-> Absent, to |-> Absent, geo |-> <<>>, size |-> 0]
NoCalls == [lex |-> 0, sem |-> 0, embed |-> 0, geocode |-> 0, remote |-> 0]

SearchInit ==
    /\ spc = "idle"
    /\ req = NoReq
    /\ start = NoDate
    /\ end = NoDate
    /\ date_range = NoRange
    /\ qpoint = NoPoint
    /\ geoFailed = FALSE
    /\ lexHits = <<>>
    /\ semHits = <<>>
    /\ candidates = <<>>
    /\ ranked = <<>>
    /\ response = <<>>
    /\ calls = NoCalls

\* an emptiness test that forgets to strip
EmptyQueryNoStrip(q) == q = <<>>

\* app.py:11,17   q = request.args.get("q", "").strip(); if not q
EmptyQuery(q) == Strip(q) = <<>>

\* a parse that looks at the first two parts only
ParsesAsPointLoose(g) ==
    /\ Contains(g, <<",">>)
    /\ IsFloat(SplitComma(g)[1]) /\ IsFloat(SplitComma(g)[2])

\* ir_core.py:139-143  lat, lon = map(float, g.split(",")) succeeds
ParsesAsPoint(g) ==
    /\ Contains(g, <<",">>)
    /\ Len(SplitComma(g)) = 2
    /\ IsFloat(SplitComma(g)[1]) /\ IsFloat(SplitComma(g)[2])

\* ir_core.py:149  the fallback coordinate (39.8283, -98.5795), in whole degrees
UsaPoint == Point(40, -99)

\* a fallback applied to every failed resolution
QueryPointAfterAlways(g, loc) ==
    IF loc.ok THEN Point(loc.lat, loc.lon) ELSE UsaPoint

\* ir_core.py:145-151  query_point after geocode_cached(g) returned loc
QueryPointAfter(g, loc) ==
    IF loc.ok THEN Point(loc.lat, loc.lon)
    ELSE IF Contains(Lower(g), <<"u", "s", "a">>) THEN UsaPoint
    ELSE NoPoint

\* app.py:9-21 and ir_core.py:105-133: the endpoint reads its arguments,
\* answers [] to an empty query, otherwise enters smart_hybrid_search, which
\* converts the two dates (and raises on a string fromisoformat rejects)
Search(q, f, t, g, n) ==
    /\ spc = "idle"
    /\ req' = [q |-> q, from |-> f, to |-> t, geo |-> g, size |-> n]
    /\ IF EmptyQuery(q)
       THEN spc' = "responded" /\ UNCHANGED <<start, end, date_range>>
       ELSE IF ToDatetimeRaises(f) \/ ToDatetimeRaises(t)
       THEN spc' = "failed" /\ UNCHANGED <<start, end, date_range>>
       ELSE /\ spc' = "resolve"
            /\ start' = StartOf(f)
            /\ end' = EndOf(StartOf(f), t)
            /\ date_range' = DateRange(StartOf(f), EndOf(StartOf(f), t))
    /\ UNCHANGED <<qpoint, geoFailed, lexHits, semHits, candidates, ranked, response, calls>>
    /\ UNCHANGED <<geoVars, acVars>>

\* ir_core.py:135-145  a literal "lat,lon" or no georeference needs no
\* lookup; otherwise geocode_cached(g) is called
ResolveGeo ==
    /\ spc = "resolve"
    /\ LET g == Strip(req.geo)
       IN  IF g = <<>>
           THEN /\ qpoint' = NoPoint
                /\ spc' = "retrieve"
                /\ UNCHANGED <<calls, geoVars>>
           ELSE IF ParsesAsPoint(g)
           THEN /\ qpoint' = Point(FloatOf(SplitComma(g)[1]), FloatOf(SplitComma(g)[2]))
                /\ spc' = "retrieve"
                /\ UNCHANGED <<calls, geoVars>>
           ELSE /\ Call(ST, g)
                /\ spc' = "geocoding"
                /\ calls' = [calls EXCEPT !.geocode = @ + 1]
                /\ UNCHANGED qpoint
    /\ UNCHANGED <<req, start, end, date_range, geoFailed, lexHits, semHits, candidates,
                   ranked, response>>
    /\ UNCHANGED acVars

\* indexer.py:51-79  geocode_cached runs inside the request
GeoLookup == spc = "geocoding" /\ Lookup(ST) /\ UNCHANGED <<searchVars, acVars>>

GeoReadHit == spc = "geocoding" /\ ReadHit(ST) /\ UNCHANGED <<searchVars, acVars>>

GeoAttempt(o, c) == spc = "geocoding" /\ Attempt(ST, o, c) /\ UNCHANGED <<searchVars, acVars>>

GeoStore == spc = "geocoding" /\ Store(ST) /\ UNCHANGED <<searchVars, acVars>>

\* ir_core.py:145-151  loc = geocode_cached(g) has returned
GeoResolved ==
    /\ spc = "geocoding"
    /\ Return(ST)
    /\ qpoint' = QueryPointAfter(Strip(req.geo), ret[ST])
    /\ geoFailed' = ~ret[ST].ok
    /\ calls' = [calls EXCEPT !.remote = attempts[ST]]
    /\ spc' = "retrieve"
    /\ UNCHANGED <<req, start, end, date_range, lexHits, semHits, candidates, ranked,
                   response>>
    /\ UNCHANGED acVars

\* ir_core.py:153-212  the lexical query, the embedding, the vector query,
\* and the fusion of the two hit lists; SL and SS are the documents the two
\* engines match
Retrieve(SL, SS) ==
    /\ spc = "retrieve"
    /\ LET lex == LexicalHits(SL, date_range, req.size * 5)
           sem == SemanticHits(SS, req.size * 10)
       IN  /\ lexHits' = lex
           /\ semHits' = sem
           /\ candidates' = Fuse(lex, sem, start, end, date_range)
    /\ calls' = [calls EXCEPT !.lex = @ + 1, !.sem = @ + 1, !.embed = @ + 1]
    /\ spc' = "rank"
    /\ UNCHANGED <<req, start, end, date_range, qpoint, geoFailed, ranked, response>>
    /\ UNCHANGED <<geoVars, acVars>>

\* a presentation score rounded to two decimals
PresentScoreRound2(f) == Round2(f)

\* ir_core.py:254, app.py:36  hit["_score"] = round(final_score, 3) is the
\* score of the formatted result
PresentScore(f) == Round3(f)

\* ir_core.py:214-256 and app.py:26-42  score every candidate, sort, keep
\* the top `size`, format; an exception raised while scoring a candidate
\* ends the request
Rerank ==
    /\ spc = "rank"
    /\ IF RerankAborts(candidates, qpoint)
       THEN /\ ranked' = <<>>
            /\ response' = <<>>
            /\ spc' = "failed"
       ELSE LET r == SortDesc(Scored(candidates, QueryWords(Strip(req.q)), qpoint))
                top == Take(r, req.size)
            IN  /\ ranked' = r
                /\ response' = [i \in 1..Len(top) |->
                                   [id |-> top[i].id, score |-> PresentScore(top[i].score)]]
                /\ spc' = "responded"
    /\ UNCHANGED <<req, start, end, date_range, qpoint, geoFailed, lexHits, semHits,
                   candidates, calls>>
    /\ UNCHANGED <<geoVars, acVars>>

\* the request is over (answered, or failed with the exception)
Finish ==
    /\ spc \in {"responded", "failed"}
    /\ spc' = "idle"
    /\ req' = NoReq
    /\ start' = NoDate
    /\ end' = NoDate
    /\ date_range' = NoRange
    /\ qpoint' = NoPoint
    /\ geoFailed' = FALSE
    /\ lexHits' = <<>>
    /\ semHits' = <<>>
    /\ candidates' = <<>>
    /\ ranked' = <<>>
    /\ response' = <<>>
    /\ calls' = NoCalls
    /\ UNCHANGED <<geoVars, acVars>>

-----------------------------------------------------------------------------
(* Title completion: app.py autocomplete -> ir_core.py autocomplete_titles *)

\* ir_core.py:262  def autocomplete_titles(prefix, size=10)
DefaultSize == 10

\* Prefixes: two characters, three characters of which two are blanks, three
\* characters
Prefixes == {<<"a", "b">>, <<" ", " ", "a">>, <<"a", " ", "c">>}

\* the documents a title query can match: the title is a string with a word
TitledDocs == {i \in AllDocIds : Corpus[i].title.kind = "str" /\ Strip(Corpus[i].title.s) # <<>>}

\* ir_core.py:265-276  what client.search may answer for a body of size n:
\* at most n matching documents, each once, in the index's relevance order
HitLists(n) ==
    UNION {{h \in [1..k -> TitledDocs] : \A i, j \in 1..k : h[i] = h[j] => i = j} :
               k \in 0..(IF n < Cardinality(TitledDocs) THEN n ELSE Cardinality(TitledDocs))}

AcInit ==
    /\ apc = "idle"
    /\ prefix = <<>>
    /\ size = 0
    /\ res = <<>>
    /\ pos = 0
    /\ seen = {}
    /\ titles = <<>>
    /\ completions = <<>>
    /\ acCalls = 0

\* ir_core.py:262-264  autocomplete_titles(p, n): a prefix shorter than 3
\* characters is answered [] at once
Complete(p, n) ==
    /\ apc = "idle"
    /\ prefix' = p
    /\ size' = n
    /\ IF Len(p) < 3
       THEN apc' = "done" /\ completions' = <<>>
       ELSE apc' = "query" /\ UNCHANGED completions
    /\ UNCHANGED <<res, pos, seen, titles, acCalls>>
    /\ UNCHANGED <<geoVars, searchVars>>

\* app.py:44-49  the endpoint strips its argument, answers [] when fewer than
\* 3 characters are left, and otherwise calls autocomplete_titles(q)
Autocomplete(arg) ==
    /\ apc = "idle"
    /\ Complete(Strip(arg), DefaultSize)

\* ir_core.py:265-278  res = client.search(...); seen = set(); titles = []
Query(hs) ==
    /\ apc = "query"
    /\ res' = hs
    /\ acCalls' = acCalls + 1
    /\ pos' = 1
    /\ seen' = {}
    /\ titles' = <<>>
    /\ apc' = "loop"
    /\ UNCHANGED <<prefix, size, completions>>
    /\ UNCHANGED <<geoVars, searchVars>>

\* a test that keeps every non-empty title
KeepsTitleAlways(t, sn) == t # <<>>

\* ir_core.py:281  if t and t not in seen
KeepsTitle(t, sn) == t # <<>> /\ t \notin sn

\* ir_core.py:279-285  one iteration of the loop over the hits
Collect ==
    /\ apc = "loop"
    /\ pos <= Len(res)
    /\ LET t == Strip(TitleText(Corpus[res[pos]]))
           ts == IF KeepsTitle(t, seen) THEN Append(titles, t) ELSE titles
       IN  /\ titles' = ts
           /\ seen' = IF KeepsTitle(t, seen) THEN seen \cup {t} ELSE seen
           /\ apc' = IF Len(ts) >= size THEN "return" ELSE "loop"
    /\ pos' = pos + 1
    /\ UNCHANGED <<prefix, size, res, completions, acCalls>>
    /\ UNCHANGED <<geoVars, searchVars>>

\* ir_core.py:286  return titles, after the break or the last hit
ReturnTitles ==
    /\ \/ apc = "return"
       \/ apc = "loop" /\ pos > Len(res)
    /\ completions' = titles
    /\ apc' = "done"
    /\ UNCHANGED <<prefix, size, res, pos, seen, titles, acCalls>>
    /\ UNCHANGED <<geoVars, searchVars>>

\* the call is over; its locals are gone
AcFinish ==
    /\ apc = "done"
    /\ apc' = "idle"
    /\ prefix' = <<>>
    /\ size' = 0
    /\ res' = <<>>
    /\ pos' = 0
    /\ seen' = {}
    /\ titles' = <<>>
    /\ completions' = <<>>
    /\ acCalls' = 0
    /\ UNCHANGED <<geoVars, searchVars>>

-----------------------------------------------------------------------------
(* Specifications                                                          *)

Init == GeoInit /\ SearchInit /\ AcInit

\* Concurrent callers of geocode_cached (request threads)
Next == \E t \in Threads : GeoStep(t, RaceNames)

Spec == Init /\ [][Next]_vars

\* One caller: calls follow each other in sequence
SeqNext == GeoStep(1, GeoNames)

SeqSpec == Init /\ [][SeqNext]_vars

\* Search requests, one after the other
SearchNext ==
    \/ \E q \in QueryTexts, f \in FromArgs, t \in ToArgs, g \in GeoArgs, n \in Sizes :
           Search(q, f, t, g, n)
    \/ ResolveGeo
    \/ GeoLookup
    \/ GeoReadHit
    \/ \E o \in Outcomes, c \in SearchCoords : GeoAttempt(o, c)
    \/ GeoStore
    \/ GeoResolved
    \/ \E SL \in SUBSET DocIds, SS \in SUBSET DocIds : Retrieve(SL, SS)
    \/ Rerank
    \/ Finish

SearchSpec == Init /\ [][SearchNext]_vars

\* Fusion and re-ranking (ir_core.py:153-256) over any content of the index:
\* the request has passed its argument handling (ir_core.py:105-151) and the
\* two engines may match any few documents of the index.
MaxMatch == 2

Matches == {S \in SUBSET AllDocIds : Cardinality(S) <= MaxMatch}

PipeQuery == <<"A", " ", "b">>
PipeFrom == {Absent, Given(<<"1987", "-", "03", "-", "01">>)}
PipeTo == {Absent, Given(<<"1987", "-", "06", "-", "30">>)}
PipeGeo == {<<>>, <<"1", "0", ",", "2", "0">>}

PipelineInit ==
    /\ GeoInit
    /\ \E f \in PipeFrom, t \in PipeTo, g \in PipeGeo :
           /\ req = [q |-> PipeQuery, from |-> f, to |-> t, geo |-> g, size |-> MaxSize]
           /\ start = StartOf(f)
           /\ end = EndOf(StartOf(f), t)
           /\ date_range = DateRange(StartOf(f), EndOf(StartOf(f), t))
           /\ qpoint = IF ParsesAsPoint(g)
                       THEN Point(FloatOf(SplitComma(g)[1]), FloatOf(SplitComma(g)[2]))
                       ELSE NoPoint
    /\ spc = "retrieve"
    /\ geoFailed = FALSE
    /\ lexHits = <<>>
    /\ semHits = <<>>
    /\ candidates = <<>>
    /\ ranked = <<>>
    /\ response = <<>>
    /\ calls = NoCalls
    /\ AcInit

PipelineNext ==
    \/ \E SL \in Matches, SS \in Matches : Retrieve(SL, SS)
    \/ Rerank
    \/ Finish

PipelineSpec == PipelineInit /\ [][PipelineNext]_vars

\* Calls of autocomplete_titles, directly and through the endpoint, one
\* after the other
AcNext ==
    \/ \E p \in Prefixes, n \in Sizes : Complete(p, n)
    \/ \E arg \in Prefixes : Autocomplete(arg)
    \/ \E hs \in HitLists(size) : Query(hs)
    \/ Collect
    \/ ReturnTitles
    \/ AcFinish

AcSpec == Init /\ [][AcNext]_vars

-----------------------------------------------------------------------------
(* Claims about geocode_cached                                             *)

\* Two names denote the same place when they differ only in case or in
\* surrounding whitespace.
SameName(a, b) == Strip(Lower(a)) = Strip(Lower(b))

\* C1 (as claimed): for every place name, a call that follows a completed
\* call with the same name, or with a name differing only in case or
\* surrounding whitespace, issues no remote call and returns what the first
\* call returned.
C1_SecondCallCached_Original ==
    \A t \in Threads :
        (pc[t] = "done" /\ prev.valid /\ SameName(prev.name, name[t]))
            => (attempts[t] = 0 /\ ret[t] = prev.ret)

\* C1 (amended): the same, for two calls with the same name, or with two
\* non-empty names differing only in case or surrounding whitespace; the
\* empty name is answered None with no lookup and is never cached, so ""
\* followed by " " (or " " followed by "") is not served from the cache.
C1_SecondCallCached ==
    \A t \in Threads :
        (/\ pc[t] = "done"
         /\ prev.valid
         /\ \/ prev.name = name[t]
            \/ (prev.name # E /\ name[t] # E /\ SameName(prev.name, name[t])))
            => (attempts[t] = 0 /\ ret[t] = prev.ret)

\* C1 witness: a second call under a differently written name returned the
\* first call's coordinate from the cache.
C1_Witness ==
    /\ pc[1] = "done" /\ prev.valid
    /\ prev.name # name[1] /\ prev.name # E /\ name[1] # E
    /\ SameName(prev.name, name[1])
    /\ hit[1] /\ prev.ret.ok /\ ret[1] = prev.ret

\* C2: on a miss at most 3 remote attempts are made; the loop continues only
\* after a non-terminal failure while fewer than 3 attempts were made, a
\* transient failure before the bound is followed by another attempt, a
\* permanent failure or a success ends the loop, and the call returns a
\* coordinate or None.
C2_BoundedRetry ==
    \A t \in Threads :
        /\ attempts[t] <= 3
        /\ pc[t] = "attempt"
              => (attempts[t] < 3 /\ last[t] \in {"none", "transient", "notfound"})
        /\ last[t] = "permanent" => (pc[t] \in {"store", "done"} /\ ~result[t].ok)
        /\ last[t] = "found" => (pc[t] \in {"store", "done"} /\ result[t].ok)
        /\ (last[t] = "transient" /\ attempts[t] < 3) => pc[t] = "attempt"
        /\ pc[t] = "done"
              => /\ ret[t].ok => [lat |-> ret[t].lat, lon |-> ret[t].lon] \in Coords
                 /\ ~ret[t].ok => ret[t] = None
                 /\ (~hit[t] /\ name[t] # E) => (ret[t].ok <=> last[t] = "found")

\* C2 witness: three transient failures exhausted the bound and the call is
\* about to cache and return None.
C2_Witness ==
    \E t \in Threads :
        pc[t] = "done" /\ attempts[t] = 3 /\ last[t] = "transient" /\ ret[t] = None

\* C3: under any interleaving every cache entry under key k answers a query
\* whose key is k, a finished call's key is still in the cache (writes of
\* other keys do not remove it), and a call returns an entry of its own key
\* or the result of its own lookup.
C3_CacheNotCorrupted ==
    /\ \A k \in DOMAIN GEO_CACHE :
           GEO_CACHE[k].ok => Strip(Lower(GEO_CACHE[k].place)) = k
    /\ (prev.valid /\ prev.name # E) => Strip(Lower(prev.name)) \in DOMAIN GEO_CACHE
    /\ \A t \in Threads :
           (pc[t] = "done" /\ name[t] # E)
               => /\ Strip(Lower(name[t])) \in DOMAIN GEO_CACHE
                  /\ ret[t].ok => SameName(ret[t].place, name[t])
                  /\ ~hit[t] => ret[t] = result[t]

\* C3 witness: two calls raced on the same uncached key, both performed the
\* remote lookup and both finished, while another key written earlier is
\* still cached.
C3_Witness ==
    /\ pc[1] = "done" /\ pc[2] = "done"
    /\ ~hit[1] /\ ~hit[2] /\ attempts[1] > 0 /\ attempts[2] > 0
    /\ key[1] = key[2] /\ ret[1] # ret[2]
    /\ Cardinality(DOMAIN GEO_CACHE) = 2

-----------------------------------------------------------------------------
(* Claims about the search request                                         *)

HitIds(hits) == {hits[i].id : i \in 1..Len(hits)}
ScoreIn(hits, id) == hits[CHOOSE k \in 1..Len(hits) : hits[k].id = id].score
Retrieved == spc \in {"rank", "responded"} /\ calls.lex > 0
Min(a, b) == IF a <= b THEN a ELSE b
Usa == <<"u", "s", "a">>

\* C4: with no date filter, fusion yields exactly one candidate per document
\* id seen in either hit list; a candidate's lexical_score and semantic_score
\* are the document's hit scores (0 for a list it is not in) and its base
\* score is their sum.
C4_FusionIdentity ==
    (Retrieved /\ ~FilterActive(date_range))
        => /\ {candidates[i].id : i \in 1..Len(candidates)} = HitIds(lexHits) \cup HitIds(semHits)
           /\ Len(candidates) = Cardinality(HitIds(lexHits) \cup HitIds(semHits))
           /\ \A i \in 1..Len(candidates) :
                  LET c == candidates[i]
                      l == IF c.id \in HitIds(lexHits) THEN ScoreIn(lexHits, c.id) ELSE 0
                      m == IF c.id \in HitIds(semHits) THEN ScoreIn(semHits, c.id) ELSE 0
                  IN  c.lexical_score = l /\ c.semantic_score = m /\ c.score = l + m

\* C4 witness: one fusion with a document in both lists, one only lexical
\* and one only semantic.
C4_Witness ==
    /\ spc = "rank" /\ ~FilterActive(date_range)
    /\ HitIds(lexHits) \cap HitIds(semHits) # {}
    /\ HitIds(lexHits) \ HitIds(semHits) # {}
    /\ HitIds(semHits) \ HitIds(lexHits) # {}
    /\ Len(candidates) = 3

\* C5: with a start date and no end date the effective end is December 31
\* of the start's year, and no document dated after that day is among the
\* lexical hits or among the candidates.
C5_StartOnlyEndsDec31 ==
    (Retrieved /\ req.from.given /\ ~req.to.given)
        => /\ end = DateTime(start.y, 12, 31, 0)
           /\ \A i \in HitIds(lexHits) : IndexedDay[i] <= Ordinal(DateTime(start.y, 12, 31, 0))
           /\ \A k \in 1..Len(candidates) :
                  IndexedDay[candidates[k].id] <= Ordinal(DateTime(start.y, 12, 31, 0))

C7_EmptyQueryNoRetrieval ==
    (spc # "idle" /\ Strip(req.q) = <<>>)
        => /\ spc = "responded"
           /\ response = <<>>
           /\ calls = NoCalls
           /\ pc[ST] = "idle"

\* C7 witness: a whitespace-only query has been answered.
C7_Witness ==
    spc = "responded" /\ req.q = <<" ">> /\ req.geo # <<>> /\ response = <<>>

\* C8: a malformed start or end date string (the empty string included) does
\* not make the request fail.
C8_MalformedDateIsAbsent ==
    (spc # "idle"
       /\ \/ (req.from.given /\ ~IsIsoDate(BeforeT(req.from.s)))
          \/ (req.to.given /\ ~IsIsoDate(BeforeT(req.to.s))))
        => spc # "failed"

\* C9 (as claimed): when geocode_cached returned None the request goes on
\* and no candidate gets a geo-proximity boost.
C9_NoBoostOnFailure_Original ==
    geoFailed
        => /\ spc \in {"retrieve", "rank", "responded"}
           /\ \A i \in 1..Len(ranked) : ~ranked[i].geo

\* C9 (amended): when geocode_cached returned None the request goes on and
\* returns its ranked results; no candidate gets a geo-proximity boost,
\* unless the georeference contains "usa" (in any case), and then the fixed
\* fallback coordinate is the query point.
C9_NoBoostOnFailure ==
    geoFailed
        => /\ spc \in {"retrieve", "rank", "responded"}
           /\ spc = "responded" => Len(response) = Min(req.size, Len(candidates))
           /\ IF Contains(Lower(Strip(req.geo)), Usa)
              THEN qpoint = UsaPoint
              ELSE /\ ~qpoint.some
                   /\ \A i \in 1..Len(ranked) : ~ranked[i].geo

\* C9 witness: three failed attempts, no "usa" in the georeference, and
\* results returned although a candidate carries a geopoint.
C9_Witness ==
    /\ spc = "responded" /\ geoFailed /\ calls.remote = 3
    /\ ~Contains(Lower(Strip(req.geo)), Usa)
    /\ response # <<>>
    /\ \E i \in 1..Len(ranked) : Corpus[ranked[i].id].geopoint.lat # 0

\* C10: at most `size` hits are returned, in descending order of final
\* score, and each is at least as good as every candidate not returned.
C10_TopSizeDescending ==
    (spc = "responded" /\ calls.lex > 0)
        => /\ Len(response) <= req.size
           /\ Len(ranked) = Len(candidates)
           /\ \A i \in 1..Len(ranked) :
                  \E k \in 1..Len(candidates) :
                      /\ candidates[k].id = ranked[i].id
                      /\ ranked[i].score
                            = FinalScore(candidates[k], QueryWords(Strip(req.q)), qpoint)
           /\ \A i \in 1..Len(response) :
                  /\ response[i].id = ranked[i].id
                  /\ \A j \in (i + 1)..Len(ranked) : ranked[i].score >= ranked[j].score

\* C10 witness: three candidates, two returned, and the ranking differs from
\* the order in which the candidates were found.
C10_Witness ==
    /\ spc = "responded" /\ req.size = 2 /\ Len(ranked) = 3 /\ Len(response) = 2
    /\ ranked[1].score > ranked[2].score /\ ranked[2].score > ranked[3].score
    /\ ranked[1].id # candidates[1].id

\* the fusion of a request is done
Fused == spc \in {"rank", "responded", "failed"} /\ calls.sem > 0

CandidateIds == {candidates[k].id : k \in 1..Len(candidates)}

\* the semantic hit h became a candidate or updated one
SemHitMerged(h) ==
    \E k \in 1..Len(candidates) :
        candidates[k].id = h.id /\ candidates[k].semantic_score = h.score

\* document i has a date that is present and parseable and lies, as a
\* calendar day, within the bounds that are present
InWindow(i) ==
    /\ DocDate[i].truthy /\ DocDate[i].parses
    /\ start.some => Ordinal(DateOf(start)) <= Ordinal(DateOf(DocDate[i].dt))
    /\ end.some => Ordinal(DateOf(DocDate[i].dt)) <= Ordinal(DateOf(end))

\* C13: with a date filter active (a start or an end, the end being December
\* 31 of the start's year when only a start is given) a semantic hit becomes
\* or updates a candidate exactly when its document's date is present,
\* parseable and within the bounds present, inclusive by calendar day, and a
\* hit that is dropped and is no lexical hit is no candidate; with no filter
\* every semantic hit is merged, a hit with no date included.
C13_SemanticPostFilter ==
    Fused
        => \A k \in 1..Len(semHits) :
               LET h == semHits[k]
               IN  IF start.some \/ end.some
                   THEN /\ SemHitMerged(h) <=> InWindow(h.id)
                        /\ (~InWindow(h.id) /\ h.id \notin HitIds(lexHits))
                              => h.id \notin CandidateIds
                   ELSE SemHitMerged(h)

\* C13 witness: with a start and an end, the semantic hit dated on the end
\* day (with a time of day) was merged and the hit whose date does not parse
\* was dropped, its document staying a lexical-only candidate.
C13_Witness ==
    /\ spc = "rank" /\ req.from.given /\ req.to.given
    /\ HitIds(semHits) = {6, 7} /\ HitIds(lexHits) = {6}
    /\ Ordinal(DateOf(DocDate[7].dt)) = Ordinal(end) /\ DocDate[7].dt.sec > 0
    /\ ~DocDate[6].parses
    /\ CandidateIds = {6, 7}
    /\ \E k \in 1..2 : candidates[k].id = 6 /\ candidates[k].semantic_score = 0
    /\ \E k \in 1..2 : candidates[k].id = 7 /\ candidates[k].semantic_score = Corpus[7].sem

\* C13 witness of the unfiltered case: with no date filter a semantic hit
\* whose document has no date is a candidate.
C13_WitnessNoFilter ==
    /\ spc = "rank" /\ ~start.some /\ ~end.some
    /\ 3 \in HitIds(semHits) /\ 3 \in CandidateIds /\ ~Corpus[3].date.given

\* the two loops of ir_core.py:175-212 run in the other order: the semantic
\* hits first, then the lexical hits
SemanticFirst == FuseLex(FuseSem(<<>>, semHits, start, end, date_range), lexHits)

\* the candidate of document id in a candidate list
CandidateOf(cands, id) == cands[CHOOSE k \in 1..Len(cands) : cands[k].id = id]

\* document id is a lexical hit and its semantic hit passed the post-filter
InBoth(id) ==
    /\ id \in HitIds(lexHits)
    /\ id \in HitIds(semHits)
    /\ SemHitMerged([id |-> id, score |-> ScoreIn(semHits, id)])

\* C14 (as claimed): the semantic list first and then the lexical list gives
\* the same candidate ids as the lexical list first, with the same
\* lexical_score, semantic_score and base score per id.
C14_FusionCommutes_Original ==
    Fused
        => /\ {SemanticFirst[k].id : k \in 1..Len(SemanticFirst)} = CandidateIds
           /\ \A id \in CandidateIds :
                  LET a == CandidateOf(candidates, id)
                      b == CandidateOf(SemanticFirst, id)
                  IN  /\ a.lexical_score = b.lexical_score
                      /\ a.semantic_score = b.semantic_score
                      /\ a.score = b.score

\* C14 (amended): either order gives the same candidate ids, one candidate
\* per id, and the same lexical_score per id; semantic_score and base score
\* agree for a document that is not in both lists after the date
\* post-filter, and for a document in both the lexical step replaces the
\* candidate: lexical first gives the semantic score and the sum, semantic
\* first gives semantic_score 0 and the lexical score alone.
C14_FusionOrder ==
    Fused
        => /\ {SemanticFirst[k].id : k \in 1..Len(SemanticFirst)} = CandidateIds
           /\ Len(SemanticFirst) = Len(candidates)
           /\ \A id \in CandidateIds :
                  LET a == CandidateOf(candidates, id)
                      b == CandidateOf(SemanticFirst, id)
                  IN  /\ a.lexical_score = b.lexical_score
                      /\ IF InBoth(id)
                         THEN /\ a.semantic_score = ScoreIn(semHits, id)
                              /\ a.score = ScoreIn(lexHits, id) + ScoreIn(semHits, id)
                              /\ b.semantic_score = 0
                              /\ b.score = ScoreIn(lexHits, id)
                         ELSE a.semantic_score = b.semantic_score /\ a.score = b.score

\* C14 witness: a fusion with one document in both lists, one only lexical
\* and one only semantic.
C14_Witness ==
    /\ spc = "rank"
    /\ \E id \in CandidateIds : InBoth(id)
    /\ HitIds(lexHits) \ HitIds(semHits) # {}
    /\ HitIds(semHits) \ HitIds(lexHits) # {}
    /\ Len(candidates) = 3

\* C15: whatever the candidates' stored fields (a date that is absent or
\* does not parse, a title or a geopoint that is missing or null), the
\* re-ranking loop ends normally, every candidate receives a final score,
\* and a boost whose field is unusable is a factor of 1.
C15_ScoringIsolated ==
    (calls.sem > 0 /\ spc \in {"responded", "failed"})
        => /\ spc = "responded"
           /\ {ranked[i].id : i \in 1..Len(ranked)} = CandidateIds
           /\ \A i \in 1..Len(ranked) :
                  LET id == ranked[i].id
                      doc == Corpus[id]
                      title == IF doc.title.kind = "str"
                               THEN TitleHalves(QueryWords(req.q), id) ELSE 2
                      recency == IF DocDate[id].parses THEN Recency[id] ELSE 100
                      geo == IF doc.geopoint.kind = "dict" THEN GeoMille(qpoint, doc) ELSE 1000
                  IN  ranked[i].score = CandidateOf(candidates, id).score * title * recency * geo

\* the string is two floating-point numbers separated by one comma
TwoFloats(g) ==
    LET ps == SplitComma(g)
    IN  Len(ps) = 2 /\ IsFloat(ps[1]) /\ IsFloat(ps[2])

\* C12: in every step of a request whose georeference is two comma-separated
\* floats the cache is not written, geocode_cached is not entered (no cache
\* read, no remote call), and once resolved the query point is that literal
\* coordinate; a georeference with a comma that is not exactly two floats is
\* resolved by a call of geocode_cached, which leaves its key in the cache.
C12_LiteralCoordinate ==
    [][LET g == Strip(req'.geo)
       IN  /\ (TwoFloats(g) /\ spc' \notin {"idle", "failed"} /\ ~EmptyQuery(req'.q))
                 => /\ GEO_CACHE' = GEO_CACHE
                    /\ pc'[ST] = "idle" /\ attempts'[ST] = 0 /\ ~hit'[ST]
                    /\ calls'.geocode = 0 /\ calls'.remote = 0
                    /\ spc' \in {"retrieve", "rank", "responded"}
                          => qpoint' = Point(FloatOf(SplitComma(g)[1]), FloatOf(SplitComma(g)[2]))
           /\ (Contains(g, <<",">>) /\ ~TwoFloats(g) /\ ~EmptyQuery(req'.q)
                 /\ spc' \in {"retrieve", "rank", "responded"})
                 => /\ calls'.geocode = 1
                    /\ Strip(Lower(g)) \in DOMAIN GEO_CACHE'
      ]_vars

\* C12 witness: a request with the georeference "1,2" was answered with the
\* query point (1, 2) while the cache, filled by earlier requests, holds
\* entries and no geocoding call was made.
C12_Witness ==
    /\ spc = "responded" /\ req.geo = <<"1", ",", "2">> /\ response # <<>>
    /\ qpoint = Point(1, 2)
    /\ calls.geocode = 0 /\ calls.remote = 0
    /\ Cardinality(DOMAIN GEO_CACHE) = 2

-----------------------------------------------------------------------------
(* Claims about autocomplete_titles                                        *)

\* the title of the k-th hit, as stored
HitTitle(k) == Corpus[res[k]].title.s

\* the first hit that carries the title t
FirstAt(t) == CHOOSE k \in 1..Len(res) : HitTitle(k) = t /\ \A m \in 1..(k - 1) : HitTitle(m) # t

\* C11: a prefix shorter than 3 characters is answered with the empty list
\* and no index query; otherwise one query is issued and the answer holds
\* the titles of its hits, each exact title once, in the order of their
\* first occurrence among the hits, and never more than `size` titles.
C11_AutocompleteDedup ==
    /\ (apc # "idle" /\ Len(prefix) < 3)
          => (apc = "done" /\ completions = <<>> /\ acCalls = 0)
    /\ (apc = "done" /\ Len(prefix) >= 3)
          => /\ acCalls = 1
             /\ Len(completions) <= size
             /\ \A i, j \in 1..Len(completions) : completions[i] = completions[j] => i = j
             /\ {completions[i] : i \in 1..Len(completions)} = {HitTitle(k) : k \in 1..Len(res)}
             /\ \A i, j \in 1..Len(completions) :
                    i < j => FirstAt(completions[i]) < FirstAt(completions[j])

\* C11 witness: three hits of which the first two carry the same title gave
\* two completions.
C11_Witness ==
    /\ apc = "done" /\ Len(prefix) >= 3
    /\ Len(res) = 3 /\ HitTitle(1) = HitTitle(2) /\ HitTitle(3) # HitTitle(1)
    /\ completions = <<HitTitle(1), HitTitle(3)>>

====
